---- MODULE Spec2Model ----
(***************************************************************************)
(* A model of the RK Test runner (src/src/rktest.c): the registry of test  *)
(* descriptors between the begin and end markers of the `rktest` section,  *)
(* the Environment build (setup_test_env), the executor (run_all_tests,    *)
(* run_test), the failure signal (g_current_test_failed) and the report    *)
(* printed and returned by rktest_main.                                    *)
(*                                                                         *)
(* Addresses are slot indexes relative to &test_data_begin: the begin      *)
(* marker is slot 0, the slots of `rktest$data` are 1..Len(registry) and   *)
(* the end marker is slot Len(registry) + 1.  A pointer is <<>> (NULL) or  *)
(* <<d>> (the address of descriptor d).  C arrays are functions on         *)
(* 1..capacity, so that array[k] of the source is index k + 1 here.        *)
(***************************************************************************)
EXTENDS Integers, Sequences, FiniteSets, TLC

(* Config variables of rktest.h, scaled down. *)
RKTEST_MAX_NUM_TEST_SUITES == 2
RKTEST_MAX_NUM_TESTS_PER_SUITE == 2
RKTEST_MAX_NUM_TESTS == RKTEST_MAX_NUM_TEST_SUITES * RKTEST_MAX_NUM_TESTS_PER_SUITE

(* Bounds of the model. *)
MaxSlots == 4        \* slots of rktest$data between the two markers
MaxBeyond == 1       \* readable words behind the end marker
MaxFailCalls == 2    \* calls of rktest_fail_current_test by one test function
MaxRuns == 2         \* calls of rktest_main by the host program

NULL == << >>

SuiteNames == 1..(RKTEST_MAX_NUM_TEST_SUITES + 1)
Funcs == {"null", "fn"}

(* rktest_test_t.  The test name of a registered descriptor is the slot it *)
(* is registered in, which makes every descriptor distinguishable.         *)
rktest_test_t(s, t, f) == [suite_name |-> s, test_name |-> t, func |-> f]

ZeroTest == rktest_test_t(0, 0, "null")

(* rktest_suite_t zero-initialised, and as add_new_suite writes it. *)
rktest_suite_t(n) ==
    [name |-> n,
     tests |-> [k \in 1..RKTEST_MAX_NUM_TESTS_PER_SUITE |-> ZeroTest],
     num_tests |-> 0]

rktest_environment_t ==
    [test_suites |-> [k \in 1..RKTEST_MAX_NUM_TEST_SUITES |-> rktest_suite_t(0)],
     num_test_suites |-> 0,
     total_num_tests |-> 0]

rktest_report_t ==
    [num_passed_tests |-> 0,
     failed_tests |-> [k \in 1..RKTEST_MAX_NUM_TESTS |-> ZeroTest],
     num_failed_tests |-> 0]

VARIABLES
    registry,               \* the words of rktest$data: NULL padding or <<descriptor>>
    it,                     \* the iterator of setup_test_env
    env,                    \* *env of setup_test_env / rktest_main
    report,                 \* *report of run_all_tests / rktest_main
    g_current_test_failed,  \* the failure signal
    pc,                     \* where the process is
    suite_i,                \* run_all_tests: index of `suite` in env->test_suites
    test_i,                 \* run_all_tests: index of `test` in suite->tests
    calls,                  \* calls of rktest_fail_current_test by the running test function
    executed,               \* history: the tests run_test was called for, in order
    out,                    \* the notices logged so far by this run
    ret,                    \* return value of the last rktest_main, -1 if none
    runs,                   \* number of calls of rktest_main so far
    outside_call            \* history: the host has called rktest_fail_current_test since
                            \* the last test was judged

vars == <<registry, it, env, report, g_current_test_failed, pc, suite_i, test_i,
          calls, executed, out, ret, runs, outside_call>>

(* Slot 0 holds test_data_begin, slot End holds test_data_end. *)
test_data_begin == 0
test_data_end == Len(registry) + 1

(* The layouts of rktest$data: any mix of padding and descriptors.  Suite names are *)
(* only ever compared with each other (strcmp), so a layout is taken up to renaming *)
(* of the suites: the names are numbered in the order of their first registration.  *)
SlotChoices == {<<0, "null">>} \cup (SuiteNames \X Funcs)

Slot(i, c) == IF c[1] = 0 THEN NULL ELSE <<rktest_test_t(c[1], i, c[2])>>

FirstRegistrationOrder(c) ==
    \A i \in DOMAIN c : c[i][1] > 1 => \E j \in 1..(i - 1) : c[j][1] = c[i][1] - 1

Registries ==
    UNION {{[i \in 1..n |-> Slot(i, c[i])] :
               c \in {d \in [1..n -> SlotChoices] : FirstRegistrationOrder(d)}} : n \in 0..MaxSlots}

(* The word at slot i of rktest$data. *)
Word(i) == registry[i]

(* skip_until_next_test: do { it++; } while (it != &test_data_end && *it == NULL).  *)
(* The result is the set of slots the call can return, 0 standing for a fault: the  *)
(* words behind the end marker are not part of the section, reading them is         *)
(* undefined, and each such word may read as NULL, as non-NULL, or not be readable  *)
(* at all (behind MaxBeyond words).                                                 *)
RECURSIVE skip_until_next_test(_)
skip_until_next_test(i) ==
    LET nx == i + 1 IN
    IF nx = test_data_end THEN {nx}
    ELSE IF nx < test_data_end
         THEN IF Word(nx) = NULL THEN skip_until_next_test(nx) ELSE {nx}
         ELSE IF nx > test_data_end + MaxBeyond THEN {0}
              ELSE {nx} \cup skip_until_next_test(nx)

(* *it in the body of the loop of setup_test_env: the descriptors the read can      *)
(* yield.  Behind the end marker the pointer is whatever lies there.                *)
Deref(i) ==
    IF i < test_data_end THEN {Word(i)[1]}
    ELSE {rktest_test_t(s, i, f) : s \in SuiteNames, f \in Funcs}

(* find_suite_with_name: the index of the first of suites[1..num_suites] with the   *)
(* name, 0 (NULL) if there is none.                                                 *)
RECURSIVE FindFrom(_, _, _, _)
FindFrom(suites, num_suites, suite_name, k) ==
    IF k > num_suites THEN 0
    ELSE IF suites[k].name = suite_name THEN k
    ELSE FindFrom(suites, num_suites, suite_name, k + 1)

(* find_suite_with_name with a loop that starts at suites[1]: the first suite is    *)
(* never found.                                                                     *)
find_suite_with_name_SkipsFirst(suites, num_suites, suite_name) ==
    FindFrom(suites, num_suites, suite_name, 2)

find_suite_with_name(suites, num_suites, suite_name) ==
    FindFrom(suites, num_suites, suite_name, 1)

(* add_new_suite: env with a fresh suite written at test_suites[num_test_suites++].  *)
(* A write behind the array's end is lost here; the build never makes one.          *)
add_new_suite(e, suite_name) ==
    [e EXCEPT !.test_suites =
                  IF e.num_test_suites + 1 \in DOMAIN e.test_suites
                  THEN [e.test_suites EXCEPT ![e.num_test_suites + 1] = rktest_suite_t(suite_name)]
                  ELSE e.test_suites,
              !.num_test_suites = e.num_test_suites + 1]

(* find_or_add_suite: the environment after the call and the index of the suite.    *)
find_or_add_suite(e, suite_name) ==
    LET found == find_suite_with_name(e.test_suites, e.num_test_suites, suite_name) IN
    IF found # 0 THEN [env |-> e, suite |-> found]
    ELSE [env |-> add_new_suite(e, suite_name), suite |-> e.num_test_suites + 1]

(* AddTest without env->total_num_tests++.                                          *)
AddTest_TotalNotCounted(e, k, test) ==
    LET suite == e.test_suites[k] IN
    [e EXCEPT !.test_suites[k].tests =
                  IF suite.num_tests + 1 \in DOMAIN suite.tests
                  THEN [suite.tests EXCEPT ![suite.num_tests + 1] = test]
                  ELSE suite.tests,
              !.test_suites[k].num_tests = suite.num_tests + 1]

(* env->total_num_tests++; suite->tests[suite->num_tests++] = *test;                *)
AddTest(e, k, test) ==
    LET suite == e.test_suites[k] IN
    [e EXCEPT !.total_num_tests = e.total_num_tests + 1,
              !.test_suites[k].tests =
                  IF suite.num_tests + 1 \in DOMAIN suite.tests
                  THEN [suite.tests EXCEPT ![suite.num_tests + 1] = test]
                  ELSE suite.tests,
              !.test_suites[k].num_tests = suite.num_tests + 1]

(* The notices of rktest_log_info, rktest_log_error, printf and fprintf: a label    *)
(* and the two values formatted into the line.                                      *)
Notice(label, a, b) == <<label, a, b>>

Init ==
    /\ registry \in Registries
    /\ it = 0
    /\ env = rktest_environment_t
    /\ report = rktest_report_t
    /\ g_current_test_failed = FALSE
    /\ pc = "idle"
    /\ suite_i = 0
    /\ test_i = 0
    /\ calls = 0
    /\ executed = << >>
    /\ out = << >>
    /\ ret = -1
    /\ runs = 0
    /\ outside_call = FALSE

(* rktest_fail_current_test, called by the running test function (or a helper of    *)
(* it), or by the host program while no run is in progress.                         *)
rktest_fail_current_test ==
    /\ \/ pc = "in_test" /\ calls < MaxFailCalls /\ calls' = calls + 1 /\ UNCHANGED outside_call
       \/ pc = "idle" /\ calls' = calls /\ outside_call' = TRUE
    /\ g_current_test_failed' = TRUE
    /\ UNCHANGED <<registry, it, env, report, pc, suite_i, test_i, executed, out, ret, runs>>

(* rktest_main up to the first test of the loop of setup_test_env: initialize(),    *)
(* the allocation of env and the first skip_until_next_test(&test_data_begin + 1).  *)
rktest_main ==
    /\ pc = "idle"
    /\ runs < MaxRuns
    /\ runs' = runs + 1
    /\ env' = rktest_environment_t
    /\ report' = rktest_report_t
    /\ \E nx \in skip_until_next_test(test_data_begin + 1) :
          /\ it' = nx
          /\ pc' = IF nx = 0 THEN "crashed" ELSE "setup"
    /\ suite_i' = 0
    /\ test_i' = 0
    /\ calls' = 0
    /\ executed' = << >>
    /\ out' = << >>
    /\ ret' = -1
    /\ UNCHANGED <<registry, g_current_test_failed, outside_call>>

(* setup_test_env with the per-suite check written as the message reads, `greater  *)
(* than` the limit: a full suite is not refused.                                    *)
setup_test_env_GreaterThan ==
    /\ pc = "setup"
    /\ it # test_data_end
    /\ \/ \E test \in Deref(it) :
             IF env.num_test_suites = RKTEST_MAX_NUM_TEST_SUITES
             THEN /\ out' = Append(out, Notice("Error: RKTEST_MAX_NUM_TEST_SUITES", RKTEST_MAX_NUM_TEST_SUITES, 0))
                  /\ pc' = "exited"
                  /\ UNCHANGED <<env, it>>
             ELSE LET fs == find_or_add_suite(env, test.suite_name)
                      suite == fs.env.test_suites[fs.suite]
                  IN IF suite.num_tests > RKTEST_MAX_NUM_TESTS_PER_SUITE
                     THEN /\ out' = Append(out, Notice("Error: RKTEST_MAX_NUM_TESTS_PER_SUITE", suite.name, RKTEST_MAX_NUM_TESTS_PER_SUITE))
                          /\ pc' = "exited"
                          /\ env' = fs.env
                          /\ UNCHANGED it
                     ELSE /\ env' = AddTest(fs.env, fs.suite, test)
                          /\ \E nx \in skip_until_next_test(it) :
                                /\ it' = nx
                                /\ pc' = IF nx = 0 THEN "crashed" ELSE "setup"
                          /\ UNCHANGED out
       \/ /\ it > test_data_end     \* the pointer read behind the end marker cannot be followed
          /\ pc' = "crashed"
          /\ UNCHANGED <<env, it, out>>
    /\ UNCHANGED <<registry, report, g_current_test_failed, suite_i, test_i, calls, executed, ret, runs, outside_call>>

(* One iteration of the loop of setup_test_env, the skip_until_next_test(it) of its *)
(* increment included: the two capacity checks, find_or_add_suite, the test added.  *)
setup_test_env ==
    /\ pc = "setup"
    /\ it # test_data_end
    /\ \/ \E test \in Deref(it) :
             IF env.num_test_suites = RKTEST_MAX_NUM_TEST_SUITES
             THEN /\ out' = Append(out, Notice("Error: RKTEST_MAX_NUM_TEST_SUITES", RKTEST_MAX_NUM_TEST_SUITES, 0))
                  /\ pc' = "exited"
                  /\ UNCHANGED <<env, it>>
             ELSE LET fs == find_or_add_suite(env, test.suite_name)
                      suite == fs.env.test_suites[fs.suite]
                  IN IF suite.num_tests = RKTEST_MAX_NUM_TESTS_PER_SUITE
                     THEN /\ out' = Append(out, Notice("Error: RKTEST_MAX_NUM_TESTS_PER_SUITE", suite.name, RKTEST_MAX_NUM_TESTS_PER_SUITE))
                          /\ pc' = "exited"
                          /\ env' = fs.env
                          /\ UNCHANGED it
                     ELSE /\ env' = AddTest(fs.env, fs.suite, test)
                          /\ \E nx \in skip_until_next_test(it) :
                                /\ it' = nx
                                /\ pc' = IF nx = 0 THEN "crashed" ELSE "setup"
                          /\ UNCHANGED out
       \/ /\ it > test_data_end     \* the pointer read behind the end marker cannot be followed
          /\ pc' = "crashed"
          /\ UNCHANGED <<env, it, out>>
    /\ UNCHANGED <<registry, report, g_current_test_failed, suite_i, test_i, calls, executed, ret, runs, outside_call>>

(* The loop of setup_test_env ends at the end marker: env is returned, rktest_main  *)
(* logs the totals and run_all_tests allocates the report.                          *)
setup_test_env_return ==
    /\ pc = "setup"
    /\ it = test_data_end
    /\ out' = out \o <<Notice("[==========] Running", env.total_num_tests, env.num_test_suites),
                       Notice("[----------] Global test environment set-up.", 0, 0)>>
    /\ report' = rktest_report_t
    /\ suite_i' = 1
    /\ pc' = "suite"
    /\ UNCHANGED <<registry, it, env, g_current_test_failed, test_i, calls, executed, ret, runs, outside_call>>

(* The suite and the test the loops of run_all_tests are at. *)
CurSuite == env.test_suites[suite_i]
CurTest == CurSuite.tests[test_i]

(* Accumulate with the pass counted outside the if: a failure is counted as a pass  *)
(* as well.                                                                         *)
Accumulate_CountsEveryTestAsPassed(rep, test, test_passed) ==
    IF test_passed
    THEN [rep EXCEPT !.num_passed_tests = rep.num_passed_tests + 1]
    ELSE [rep EXCEPT !.num_passed_tests = rep.num_passed_tests + 1,
                     !.failed_tests =
                         IF rep.num_failed_tests + 1 \in DOMAIN rep.failed_tests
                         THEN [rep.failed_tests EXCEPT ![rep.num_failed_tests + 1] = test]
                         ELSE rep.failed_tests,
                     !.num_failed_tests = rep.num_failed_tests + 1]

(* Accumulate with failed_tests[++num_failed_tests]: the failure is written one     *)
(* element too far.                                                                 *)
Accumulate_PreIncrement(rep, test, test_passed) ==
    IF test_passed
    THEN [rep EXCEPT !.num_passed_tests = rep.num_passed_tests + 1]
    ELSE [rep EXCEPT !.failed_tests =
                         IF rep.num_failed_tests + 2 \in DOMAIN rep.failed_tests
                         THEN [rep.failed_tests EXCEPT ![rep.num_failed_tests + 2] = test]
                         ELSE rep.failed_tests,
                     !.num_failed_tests = rep.num_failed_tests + 1]

(* run_all_tests, the body of the inner loop after run_test has returned: a pass is *)
(* counted, a failure is copied to failed_tests[num_failed_tests++].                *)
Accumulate(rep, test, test_passed) ==
    IF test_passed
    THEN [rep EXCEPT !.num_passed_tests = rep.num_passed_tests + 1]
    ELSE [rep EXCEPT !.failed_tests =
                         IF rep.num_failed_tests + 1 \in DOMAIN rep.failed_tests
                         THEN [rep.failed_tests EXCEPT ![rep.num_failed_tests + 1] = test]
                         ELSE rep.failed_tests,
                     !.num_failed_tests = rep.num_failed_tests + 1]

(* TestDone with a failure ending the inner loop of run_all_tests (a break in the   *)
(* else branch): the rest of the suite is not run.                                  *)
TestDone_FailureEndsSuite(test, log) ==
    LET test_passed == ~g_current_test_failed IN
    /\ g_current_test_failed' = FALSE
    /\ outside_call' = FALSE
    /\ out' = Append(log, Notice(IF test_passed THEN "[       OK ]" ELSE "[  FAILED  ]",
                                 test.suite_name, test.test_name))
    /\ report' = Accumulate(report, test, test_passed)
    /\ executed' = Append(executed, [test |-> test, calls |-> calls', passed |-> test_passed])
    /\ test_i' = IF test_passed THEN test_i + 1 ELSE CurSuite.num_tests + 1
    /\ pc' = "test"

(* TestDone without the reset of the signal (line 218 left out).                    *)
TestDone_NoReset(test, log) ==
    LET test_passed == ~g_current_test_failed IN
    /\ g_current_test_failed' = g_current_test_failed
    /\ outside_call' = FALSE
    /\ out' = Append(log, Notice(IF test_passed THEN "[       OK ]" ELSE "[  FAILED  ]",
                                 test.suite_name, test.test_name))
    /\ report' = Accumulate(report, test, test_passed)
    /\ executed' = Append(executed, [test |-> test, calls |-> calls', passed |-> test_passed])
    /\ test_i' = test_i + 1
    /\ pc' = "test"

(* run_test from the return of test->func() on, and the rest of the loop body of    *)
(* run_all_tests: the signal is read and reset, the verdict logged behind the       *)
(* notices `log` and accumulated, and the loop moves to the next test.              *)
TestDone(test, log) ==
    LET test_passed == ~g_current_test_failed IN
    /\ g_current_test_failed' = FALSE
    /\ outside_call' = FALSE
    /\ out' = Append(log, Notice(IF test_passed THEN "[       OK ]" ELSE "[  FAILED  ]",
                                 test.suite_name, test.test_name))
    /\ report' = Accumulate(report, test, test_passed)
    /\ executed' = Append(executed, [test |-> test, calls |-> calls', passed |-> test_passed])
    /\ test_i' = test_i + 1
    /\ pc' = "test"

(* The outer loop of run_all_tests enters a suite: the suite-start notice. *)
run_all_tests_suite ==
    /\ pc = "suite"
    /\ suite_i # env.num_test_suites + 1
    /\ out' = Append(out, Notice("[----------] tests from", CurSuite.num_tests, CurSuite.name))
    /\ test_i' = 1
    /\ pc' = "test"
    /\ UNCHANGED <<registry, it, env, report, g_current_test_failed, suite_i, calls, executed, ret, runs, outside_call>>

(* run_test is called for the next test of the suite: the RUN notice, then the test *)
(* function is entered, or, if the descriptor has none, run_test goes on at once.   *)
run_test ==
    /\ pc = "test"
    /\ test_i # CurSuite.num_tests + 1
    /\ calls' = 0
    /\ LET log == Append(out, Notice("[ RUN      ]", CurTest.suite_name, CurTest.test_name)) IN
       IF CurTest.func # "null"
       THEN /\ out' = log
            /\ pc' = "in_test"
            /\ UNCHANGED <<report, g_current_test_failed, executed, test_i, outside_call>>
       ELSE TestDone(CurTest, log)
    /\ UNCHANGED <<registry, it, env, suite_i, ret, runs>>

(* test->func() returns to run_test. *)
run_test_return ==
    /\ pc = "in_test"
    /\ calls' = calls
    /\ TestDone(CurTest, out)
    /\ UNCHANGED <<registry, it, env, suite_i, ret, runs>>

(* run_all_tests_suite_end with the suite-end notice formatted from the total of   *)
(* the Environment instead of the count of the suite.                               *)
run_all_tests_suite_end_TotalCount ==
    /\ pc = "test"
    /\ test_i = CurSuite.num_tests + 1
    /\ out' = out \o <<Notice("[----------] tests from (total)", env.total_num_tests, CurSuite.name),
                       Notice("", 0, 0)>>
    /\ suite_i' = suite_i + 1
    /\ pc' = "suite"
    /\ UNCHANGED <<registry, it, env, report, g_current_test_failed, test_i, calls, executed, ret, runs, outside_call>>

(* The inner loop of run_all_tests ends: the suite-end notice and the blank line,   *)
(* and the outer loop moves to the next suite.                                      *)
run_all_tests_suite_end ==
    /\ pc = "test"
    /\ test_i = CurSuite.num_tests + 1
    /\ out' = out \o <<Notice("[----------] tests from (total)", CurSuite.num_tests, CurSuite.name),
                       Notice("", 0, 0)>>
    /\ suite_i' = suite_i + 1
    /\ pc' = "suite"
    /\ UNCHANGED <<registry, it, env, report, g_current_test_failed, test_i, calls, executed, ret, runs, outside_call>>

(* tests_passed with the polarity of an exit code: 0 for success. *)
tests_passed_ExitCode(rep) == rep.num_failed_tests # 0

(* rktest_main: tests_passed = report->num_failed_tests == 0 *)
tests_passed(rep) == rep.num_failed_tests = 0

(* print_failed_tests: the header, one line per failed test in the order of         *)
(* failed_tests, a blank line and the count line.                                   *)
print_failed_tests(rep) ==
    <<Notice("[  FAILED  ] tests, listed below:", rep.num_failed_tests, 0)>>
    \o [k \in 1..rep.num_failed_tests |->
           Notice("[  FAILED  ]", rep.failed_tests[k].suite_name, rep.failed_tests[k].test_name)]
    \o <<Notice("", 0, 0), Notice("FAILED TESTS", rep.num_failed_tests, 0)>>

(* The outer loop of run_all_tests ends and the report is returned: rktest_main     *)
(* logs the totals, prints the failed tests if there are any, releases report and   *)
(* env and returns tests_passed.  report and env keep their last contents here, as  *)
(* what the run printed and returned.                                               *)
rktest_main_return ==
    /\ pc = "suite"
    /\ suite_i = env.num_test_suites + 1
    /\ out' = out
              \o <<Notice("[----------] Global test environment tear-down.", 0, 0),
                   Notice("[==========] tests ran", env.total_num_tests, env.num_test_suites),
                   Notice("[  PASSED  ] tests", report.num_passed_tests, 0)>>
              \o (IF ~tests_passed(report) THEN print_failed_tests(report) ELSE << >>)
    /\ ret' = IF tests_passed(report) THEN 1 ELSE 0
    /\ pc' = "idle"
    /\ UNCHANGED <<registry, it, env, report, g_current_test_failed, suite_i, test_i, calls, executed, runs, outside_call>>

Next ==
    \/ rktest_fail_current_test
    \/ rktest_main
    \/ setup_test_env
    \/ setup_test_env_return
    \/ run_all_tests_suite
    \/ run_test
    \/ run_test_return
    \/ run_all_tests_suite_end
    \/ rktest_main_return

Spec == Init /\ [][Next]_vars

(***************************************************************************)
(* What the claims speak about.                                            *)
(***************************************************************************)

(* The slots of the registry that hold a descriptor, and the descriptors. *)
RealSlots == {i \in 1..Len(registry) : registry[i] # NULL}
Registered(i) == registry[i][1]
RegisteredNames == {Registered(i).suite_name : i \in RealSlots}
SlotsOf(name) == {i \in RealSlots : Registered(i).suite_name = name}

(* The least element of a non-empty set of slots. *)
FirstOf(slots) == CHOOSE i \in slots : \A j \in slots : i <= j

(* The registry stays within both capacities / exceeds one of them. *)
WithinCapacity ==
    /\ Cardinality(RegisteredNames) <= RKTEST_MAX_NUM_TEST_SUITES
    /\ \A name \in RegisteredNames : Cardinality(SlotsOf(name)) <= RKTEST_MAX_NUM_TESTS_PER_SUITE
OverCapacity == ~WithinCapacity

(* setup_test_env has returned env to rktest_main in the current or last run. *)
Running == pc \in {"suite", "test", "in_test"}
Returned == pc = "idle" /\ ret # -1
Built == Running \/ Returned

(* The suites and tests of env that are in use, and all its tests in run order. *)
SuiteTests(k) == SubSeq(env.test_suites[k].tests, 1, env.test_suites[k].num_tests)
RECURSIVE TestsFrom(_)
TestsFrom(k) == IF k > env.num_test_suites THEN << >> ELSE SuiteTests(k) \o TestsFrom(k + 1)
AllTests == TestsFrom(1)

(* The descriptors of the executed tests, and of those recorded as failed. *)
ExecutedTests == [k \in 1..Len(executed) |-> executed[k].test]
IsFailure(e) == ~e.passed
ExecutedFailures ==
    LET f == SelectSeq(executed, IsFailure) IN [k \in 1..Len(f) |-> f[k].test]
FailedTests == SubSeq(report.failed_tests, 1, report.num_failed_tests)
FailedBlockPrinted ==
    \E k \in 1..Len(out) : out[k][1] = "[  FAILED  ] tests, listed below:"

(***************************************************************************)
(* C1: for every layout of the registry, the Environment that              *)
(* setup_test_env returns counts every registered descriptor and every     *)
(* registered suite name: total_num_tests is the number of non-NULL slots  *)
(* between the markers and num_test_suites the number of distinct suite    *)
(* names in them.  The code never reads the slot directly behind the begin *)
(* marker, so this fails.                                                  *)
(***************************************************************************)
C1_CountsMatchRegistry ==
    (Built /\ WithinCapacity) =>
        /\ env.total_num_tests = Cardinality(RealSlots)
        /\ env.num_test_suites = Cardinality(RegisteredNames)

(***************************************************************************)
(* C2: in the Environment that setup_test_env returns the suites are in    *)
(* the order in which their names are first registered, and the tests of   *)
(* each suite are descriptors of the registry with that suite's name, in   *)
(* the order of their slots.  The descriptor the scan skips can carry the  *)
(* first registration of a suite, so the suite order fails.                *)
(***************************************************************************)
C2_FirstSeenOrder ==
    Built =>
        /\ \A a, b \in 1..env.num_test_suites :
               a < b => FirstOf(SlotsOf(env.test_suites[a].name))
                            < FirstOf(SlotsOf(env.test_suites[b].name))
        /\ \A k \in 1..env.num_test_suites :
               LET tests == SuiteTests(k) IN
               /\ \A j \in 1..Len(tests) :
                      /\ tests[j].test_name \in SlotsOf(env.test_suites[k].name)
                      /\ tests[j] = Registered(tests[j].test_name)
               /\ \A i, j \in 1..Len(tests) : i < j => tests[i].test_name < tests[j].test_name

(***************************************************************************)
(* C3: a test is recorded as failed exactly if rktest_fail_current_test    *)
(* was called at least once while its own function ran, however often.     *)
(* A call made before rktest_main is still pending when the first test is  *)
(* judged, so this fails.                                                  *)
(***************************************************************************)
C3_FailedIffCalledDuringTest ==
    \A k \in 1..Len(executed) : executed[k].passed <=> executed[k].calls = 0

(***************************************************************************)
(* C4: when run_test enters a test's function the failure signal is false, *)
(* whatever was called outside the test.  run_test resets the signal only  *)
(* after the function has returned, so this fails.                         *)
(***************************************************************************)
C4_SignalFalseAtTestStart ==
    (pc = "in_test" /\ calls = 0) => ~g_current_test_failed

(***************************************************************************)
(* C5: at every point of a run num_passed_tests + num_failed_tests is the  *)
(* number of tests whose execution has finished, and once rktest_main has  *)
(* returned it is the Environment's total_num_tests.                       *)
(***************************************************************************)
C5_PassedPlusFailedIsTotal ==
    /\ report.num_passed_tests + report.num_failed_tests = Len(executed)
    /\ Returned => report.num_passed_tests + report.num_failed_tests = env.total_num_tests

C5_Witness ==
    /\ Returned
    /\ env.total_num_tests >= 3
    /\ report.num_passed_tests >= 1
    /\ report.num_failed_tests >= 2

(***************************************************************************)
(* C6: the build ends the process only if a limit is exceeded: a registry  *)
(* with at most RKTEST_MAX_NUM_TEST_SUITES suite names and at most         *)
(* RKTEST_MAX_NUM_TESTS_PER_SUITE descriptors of each never reaches        *)
(* exit(1).  The suite check compares num_test_suites with the limit       *)
(* before it knows whether the descriptor needs a new suite, so this       *)
(* fails once the last suite allowed exists.                               *)
(***************************************************************************)
C6_NoExitWithinCapacity ==
    WithinCapacity => pc # "exited"

(***************************************************************************)
(* C7: a registry with more suite names than RKTEST_MAX_NUM_TEST_SUITES,   *)
(* or more descriptors of one name than RKTEST_MAX_NUM_TESTS_PER_SUITE, is *)
(* never built: no Environment is returned, no test is run, nothing is     *)
(* reported.  The descriptor the scan skips does not count, so this fails. *)
(***************************************************************************)
C7_OverCapacityNeverBuilt ==
    OverCapacity => (~Built /\ executed = << >>)

(***************************************************************************)
(* C8: a failure ends nothing.  The tests run so far are always the first  *)
(* tests of the Environment in suite order and test order, each once; in   *)
(* the run phase the next step of the run is always possible; the process  *)
(* never ends after a test has run; and when rktest_main returns, every    *)
(* test of the Environment has run exactly once.                           *)
(***************************************************************************)
C8_EveryTestRunsOnceInOrder ==
    /\ Built => /\ Len(executed) <= Len(AllTests)
                /\ ExecutedTests = SubSeq(AllTests, 1, Len(executed))
    /\ Running => ENABLED (run_all_tests_suite \/ run_test \/ run_test_return
                             \/ run_all_tests_suite_end \/ rktest_main_return)
    /\ pc \in {"exited", "crashed"} => executed = << >>
    /\ Returned => ExecutedTests = AllTests

C8_Witness ==
    /\ Returned
    /\ env.num_test_suites = 2
    /\ Len(executed) = 3
    /\ ~executed[1].passed
    /\ executed[3].passed

(***************************************************************************)
(* C9: failed_tests[0..num_failed_tests) is at every point the sequence of *)
(* the executed tests that were judged failed, in execution order: every   *)
(* failure once, no passing test.                                          *)
(***************************************************************************)
C9_FailedListIsFailuresInOrder ==
    /\ report.num_failed_tests <= RKTEST_MAX_NUM_TESTS
    /\ FailedTests = ExecutedFailures

C9_Witness ==
    /\ Returned
    /\ Len(executed) = 3
    /\ ~executed[1].passed
    /\ executed[2].passed
    /\ ~executed[3].passed
    /\ report.num_failed_tests = 2

(***************************************************************************)
(* C10: rktest_main returns 1 exactly if no executed test was judged       *)
(* failed and 0 exactly if one was, and the block listing the failed tests *)
(* is printed exactly if it returns 0.                                     *)
(***************************************************************************)
C10_StatusReflectsFailures ==
    Returned =>
        /\ ret = 1 <=> \A k \in 1..Len(executed) : executed[k].passed
        /\ ret = 0 <=> \E k \in 1..Len(executed) : ~executed[k].passed
        /\ FailedBlockPrinted <=> ret = 0

C10_Witness ==
    /\ Returned
    /\ ret = 0
    /\ FailedBlockPrinted
    /\ \E k \in 1..Len(executed) : executed[k].passed

(***************************************************************************)
(* C11: a test whose descriptor has no function is an automatic pass:      *)
(* every executed test with func == NULL is judged passed, so it is        *)
(* counted in num_passed_tests and never copied to failed_tests.  run_test *)
(* reads the signal for it without having reset it, so a call made before  *)
(* the run makes it a failure.                                             *)
(***************************************************************************)
C11_NoFunctionPasses ==
    /\ \A k \in 1..Len(executed) : executed[k].test.func = "null" => executed[k].passed
    /\ \A k \in 1..report.num_failed_tests : report.failed_tests[k].func # "null"

(***************************************************************************)
(* C12, as claimed: whenever no test function is executing the failure     *)
(* signal is false.  The host program can set it outside a run.            *)
(***************************************************************************)
C12_SignalFalseOutsideTests ==
    pc # "in_test" => ~g_current_test_failed

(***************************************************************************)
(* C12, amended: a test's signal is not carried on.  Whenever no test      *)
(* function is executing, the signal is true exactly if the host program   *)
(* has called rktest_fail_current_test outside a test since the last test  *)
(* was judged; and every test but the first of a run is judged failed      *)
(* exactly if the signal was called during its own invocation.             *)
(***************************************************************************)
C12_SignalNotCarriedOn ==
    /\ pc # "in_test" => (g_current_test_failed <=> outside_call)
    /\ \A k \in 2..Len(executed) : executed[k].passed <=> executed[k].calls = 0

C12_Witness ==
    /\ runs = 2
    /\ pc = "test"
    /\ Len(executed) = 2
    /\ ~executed[1].passed
    /\ executed[2].passed
    /\ ~g_current_test_failed

(***************************************************************************)
(* C13: no fixed-capacity array is indexed behind its end.  The counts,    *)
(* each of which is the index of the next write, never exceed the          *)
(* capacities of test_suites, tests and failed_tests, and the loops of     *)
(* run_all_tests read only elements in use.                                *)
(***************************************************************************)
C13_CountsWithinCapacity ==
    /\ env.num_test_suites <= RKTEST_MAX_NUM_TEST_SUITES
    /\ \A k \in DOMAIN env.test_suites :
           env.test_suites[k].num_tests <= RKTEST_MAX_NUM_TESTS_PER_SUITE
    /\ report.num_failed_tests <= RKTEST_MAX_NUM_TEST_SUITES * RKTEST_MAX_NUM_TESTS_PER_SUITE
    /\ pc \in {"test", "in_test"} => suite_i \in 1..env.num_test_suites
    /\ pc = "in_test" => test_i \in 1..CurSuite.num_tests

C13_Witness ==
    /\ Returned
    /\ env.num_test_suites = RKTEST_MAX_NUM_TEST_SUITES
    /\ env.test_suites[1].num_tests = RKTEST_MAX_NUM_TESTS_PER_SUITE
    /\ report.num_failed_tests = env.total_num_tests

(***************************************************************************)
(* C14: for every layout the scan of setup_test_env stops at the end       *)
(* marker: the iterator never points behind it and no word behind it is    *)
(* read, so the build never faults.  With an empty registry the first      *)
(* skip_until_next_test starts at the end marker and steps over it.        *)
(***************************************************************************)
C14_ScanStopsAtEndMarker ==
    /\ it <= test_data_end
    /\ pc # "crashed"

(***************************************************************************)
(* C15: after every step of the build (and from then on) the suites in use *)
(* have pairwise different names, and every descriptor stored in a suite   *)
(* carries that suite's name.                                              *)
(***************************************************************************)
C15_SuiteNamesUnique ==
    /\ \A a, b \in 1..env.num_test_suites :
           env.test_suites[a].name = env.test_suites[b].name => a = b
    /\ \A k \in 1..env.num_test_suites :
           \A j \in 1..env.test_suites[k].num_tests :
               env.test_suites[k].tests[j].suite_name = env.test_suites[k].name

C15_Witness ==
    /\ pc = "setup"
    /\ env.num_test_suites = 2
    /\ env.test_suites[1].num_tests = 2
    /\ env.test_suites[2].num_tests = 1

(* The sum of num_tests over the suites k..num_test_suites of env. *)
RECURSIVE NumTestsFrom(_)
NumTestsFrom(k) ==
    IF k > env.num_test_suites THEN 0
    ELSE env.test_suites[k].num_tests + NumTestsFrom(k + 1)

(***************************************************************************)
(* C16: after every completed iteration of the loop of setup_test_env and  *)
(* in the Environment it returns, total_num_tests is the sum of num_tests  *)
(* over the suites, and every suite holds at least one test.               *)
(***************************************************************************)
C16_TotalIsSumOfSuites ==
    (pc = "setup" \/ Built) =>
        /\ env.total_num_tests = NumTestsFrom(1)
        /\ \A k \in 1..env.num_test_suites : env.test_suites[k].num_tests >= 1

C16_Witness ==
    /\ Returned
    /\ env.num_test_suites = 2
    /\ env.total_num_tests = 3

(* The lifecycle notices of the run: what was logged behind the two notices that    *)
(* open the run and before the tear-down notice.                                    *)
TearDownAt ==
    LET at == {n \in 1..Len(out) : out[n][1] = "[----------] Global test environment tear-down."}
    IN IF at = {} THEN Len(out) + 1 ELSE CHOOSE n \in at : TRUE
Lifecycle == SubSeq(out, 3, TearDownAt - 1)

(* The notices the nesting order asks for.  Test j of suite k is the test executed  *)
(* as number TestsBefore(k) + j; its verdict notice is the one it was judged with.  *)
TestsBefore(k) == NumTestsFrom(1) - NumTestsFrom(k)
TestStartNotice(k, j) ==
    Notice("[ RUN      ]", env.test_suites[k].name, env.test_suites[k].tests[j].test_name)
VerdictNotice(k, j) ==
    Notice(IF executed[TestsBefore(k) + j].passed THEN "[       OK ]" ELSE "[  FAILED  ]",
           env.test_suites[k].name, env.test_suites[k].tests[j].test_name)
SuiteStartNotice(k) ==
    Notice("[----------] tests from", env.test_suites[k].num_tests, env.test_suites[k].name)
SuiteEndNotice(k) ==
    Notice("[----------] tests from (total)", env.test_suites[k].num_tests, env.test_suites[k].name)

RECURSIVE NoticesOfTests(_, _, _)
NoticesOfTests(k, j, n) ==
    IF j > n THEN << >>
    ELSE <<TestStartNotice(k, j), VerdictNotice(k, j)>> \o NoticesOfTests(k, j + 1, n)

NoticesOfSuite(k) ==
    <<SuiteStartNotice(k)>> \o NoticesOfTests(k, 1, env.test_suites[k].num_tests)
    \o <<SuiteEndNotice(k), Notice("", 0, 0)>>

RECURSIVE NoticesOfSuites(_, _)
NoticesOfSuites(k, n) ==
    IF k > n THEN << >> ELSE NoticesOfSuite(k) \o NoticesOfSuites(k + 1, n)

(* The nested notices up to where the run is: the suites done, and of the suite the *)
(* run is in its start notice, the tests done, and the start notice of a test whose *)
(* function is executing.                                                           *)
NestedNotices ==
    IF pc \in {"test", "in_test"}
    THEN NoticesOfSuites(1, suite_i - 1)
         \o <<SuiteStartNotice(suite_i)>>
         \o NoticesOfTests(suite_i, 1, test_i - 1)
         \o (IF pc = "in_test" THEN <<TestStartNotice(suite_i, test_i)>> ELSE << >>)
    ELSE NoticesOfSuites(1, suite_i - 1)

IsOK(n) == n[1] = "[       OK ]"
IsFAILED(n) == n[1] = "[  FAILED  ]"

(***************************************************************************)
(* C17: the lifecycle notices are nested in a fixed order.  At every point *)
(* of a run they are, suite by suite in Environment order: the suite-start *)
(* notice, for each test its start notice directly followed by its one     *)
(* verdict notice, the suite-end notice with the name and count of the     *)
(* suite-start notice, and the blank line.  The verdict notices agree with *)
(* the Report: as many OK notices as num_passed_tests, and the FAILED      *)
(* notices name the tests of failed_tests in order.                        *)
(***************************************************************************)
C17_NoticesNested ==
    Built =>
        LET notices == Lifecycle
            failed == SelectSeq(notices, IsFAILED)
        IN /\ notices = NestedNotices
           /\ Len(SelectSeq(notices, IsOK)) = report.num_passed_tests
           /\ Len(failed) = report.num_failed_tests
           /\ \A n \in 1..Len(failed) :
                  /\ failed[n][2] = report.failed_tests[n].suite_name
                  /\ failed[n][3] = report.failed_tests[n].test_name

C17_Witness ==
    /\ Returned
    /\ env.num_test_suites = 2
    /\ Len(executed) = 3
    /\ executed[1].passed
    /\ ~executed[2].passed
    /\ Len(Lifecycle) = 12

====
